---- MODULE Spec2Model ----
(***************************************************************************)
(* A model of the KubelkaMunk engine of src/paintdata.js: the Kubelka-Munk *)
(* transform pair, spectral mixing, the spectral-to-XYZ integration, the   *)
(* XYZ-to-sRGB conversion and the CIEDE2000 colour difference.             *)
(*                                                                         *)
(* JavaScript numbers.  A JS Number is modelled as NaN, +Infinity,         *)
(* -Infinity or a finite signed decimal fixed-point value with 16          *)
(* fractional digits.  Every arithmetic operation returns its exact result *)
(* truncated toward zero onto that grid, the way an IEEE-754 operation     *)
(* returns its exact result rounded onto the doubles: results are finite-  *)
(* precision, sign-symmetric, and a round trip through two transforms is   *)
(* not the identity by construction.  Signed zero is not modelled.         *)
(* TLC's integers are 32 bits wide, so the magnitude of a finite value is  *)
(* a natural number held as a sequence of base-10000 limbs, least          *)
(* significant first, without leading zero limbs (zero is << >>).          *)
(***************************************************************************)
EXTENDS Integers, Sequences, FiniteSets, TLC

(***************************************************************************)
(* Natural numbers of arbitrary size (limb sequences).                     *)
(***************************************************************************)
Base == 10 ^ 4

Limb(a, i) == IF i <= Len(a) THEN a[i] ELSE 0

Max2(i, j) == IF i >= j THEN i ELSE j

Min2(i, j) == IF i <= j THEN i ELSE j

\* a without its leading zero limbs
NatNorm[a \in Seq(Nat)] ==
    SubSeq(a, 1, Cardinality({i \in 1..Len(a) : \E j \in i..Len(a) : a[j] # 0}))

NatFromInt[n \in Int] ==
    NatNorm[<< n % Base, (n \div Base) % Base, n \div (Base * Base) >>]

\* the carry into limb i of a + b: a lower pair of limbs overflows and every
\* pair between it and i passes the carry on
AddCarry(a, b, i) ==
    IF \E j \in 1..(i - 1) :
           /\ Limb(a, j) + Limb(b, j) >= Base
           /\ \A k \in (j + 1)..(i - 1) : Limb(a, k) + Limb(b, k) = Base - 1
    THEN 1 ELSE 0

NatAdd[a \in Seq(Nat), b \in Seq(Nat)] ==
    NatNorm[SubSeq([i \in 1..(Max2(Len(a), Len(b)) + 1) |->
                       (Limb(a, i) + Limb(b, i) + AddCarry(a, b, i)) % Base],
                   1, Max2(Len(a), Len(b)) + 1)]

\* the borrow from limb i of a - b
SubBorrow(a, b, i) ==
    IF \E j \in 1..(i - 1) :
           /\ a[j] < Limb(b, j)
           /\ \A k \in (j + 1)..(i - 1) : a[k] = Limb(b, k)
    THEN 1 ELSE 0

\* a - b for a >= b
NatSub[a \in Seq(Nat), b \in Seq(Nat)] ==
    NatNorm[SubSeq([i \in 1..Len(a) |->
                       (a[i] - Limb(b, i) - SubBorrow(a, b, i)) % Base],
                   1, Len(a))]

\* -1, 0 or 1 as a < b, a = b, a > b
NatCmp[a \in Seq(Nat), b \in Seq(Nat)] ==
    IF Len(a) < Len(b) THEN -1
    ELSE IF Len(a) > Len(b) THEN 1
    ELSE IF a = b THEN 0
    ELSE IF \E i \in 1..Len(a) :
                a[i] > b[i] /\ \A j \in (i + 1)..Len(a) : a[j] = b[j]
         THEN 1
    ELSE -1

\* a * d for 0 <= d < Base: the low halves of the limb products, plus their
\* high halves one limb up
NatMulSmall[a \in Seq(Nat), d \in Int] ==
    IF d = 0 \/ a = << >> THEN << >>
    ELSE NatAdd[[i \in 1..Len(a) |-> (a[i] * d) % Base],
                << 0 >> \o [i \in 1..Len(a) |-> (a[i] * d) \div Base]]

\* a * Base^k
NatShift[a \in Seq(Nat), k \in Int] ==
    IF a = << >> THEN << >> ELSE [i \in 1..k |-> 0] \o a

\* a \div Base^k
NatDrop[a \in Seq(Nat), k \in Int] ==
    IF Len(a) <= k THEN << >> ELSE SubSeq(a, k + 1, Len(a))

\* A loop is a recursion on the record s of the loop's variables, so that
\* each pass works on the values of the pass before it.
RECURSIVE NatMulAt(_, _, _)
NatMulAt(a, b, s) ==
    IF s.j > Len(b) THEN s.acc
    ELSE NatMulAt(a, b,
             [j   |-> s.j + 1,
              acc |-> NatAdd[s.acc, NatShift[NatMulSmall[a, b[s.j]], s.j - 1]]])

NatMul[a \in Seq(Nat), b \in Seq(Nat)] ==
    NatMulAt(a, b, [j |-> 1, acc |-> << >>])

RECURSIVE NatDivSmallAt(_, _, _)
NatDivSmallAt(a, d, s) ==
    IF s.i = 0 THEN NatNorm[s.acc]
    ELSE NatDivSmallAt(a, d,
             [i   |-> s.i - 1,
              r   |-> (s.r * Base + a[s.i]) % d,
              acc |-> << (s.r * Base + a[s.i]) \div d >> \o s.acc])

\* a \div d for 0 < d < Base
NatDivSmall[a \in Seq(Nat), d \in Int] ==
    NatDivSmallAt(a, d, [i |-> Len(a), r |-> 0, acc |-> << >>])

\* the leading limbs of r, as one integer, down to the place of b's leading limb
NatTop(r, b) ==
    IF Len(r) > Len(b) THEN r[Len(r)] * Base + r[Len(r) - 1]
    ELSE IF Len(r) = Len(b) THEN r[Len(r)]
    ELSE 0

\* the largest d with b * d <= r, given an estimate at most two above it
NatQFrom(r, b, qhat) ==
    IF qhat = 0 \/ NatCmp[NatMulSmall[b, qhat], r] <= 0 THEN qhat
    ELSE IF NatCmp[NatMulSmall[b, qhat - 1], r] <= 0 THEN qhat - 1
    ELSE qhat - 2

\* r \div b for r < b * Base and b's leading limb at least Base \div 2: the
\* quotient of the leading limbs is the estimate
NatQuot(r, b) == NatQFrom(r, b, Min2(Base - 1, NatTop(r, b) \div b[Len(b)]))

\* the state of the long division at limb i: r is the running remainder with
\* limb i brought down, d its quotient digit, q the digits found before
NatDivState(b, i, r, q) == [i |-> i, r |-> r, d |-> NatQuot(r, b), q |-> q]

RECURSIVE NatDivAt(_, _, _)
NatDivAt(a, b, s) ==
    IF s.i = 1 THEN NatNorm[<< s.d >> \o s.q]
    ELSE NatDivAt(a, b,
             NatDivState(b, s.i - 1,
                 NatNorm[<< a[s.i - 1] >> \o NatSub[s.r, NatMulSmall[b, s.d]]],
                 << s.d >> \o s.q))

\* a \div b, both scaled by f to bring b's leading limb to at least Base \div 2
NatDivScaled(a, b) ==
    NatDivAt(a, b, NatDivState(b, Len(a), << a[Len(a)] >>, << >>))

NatDivBy(a, b, f) == NatDivScaled(NatMulSmall[a, f], NatMulSmall[b, f])

\* a \div b for b > 0
NatDiv[a \in Seq(Nat), b \in Seq(Nat)] ==
    IF a = << >> THEN << >> ELSE NatDivBy(a, b, Base \div (b[Len(b)] + 1))

\* the least r with r^n > t, for 0 <= t < Base and n = 2, 3
RootAbove(t, n) == CHOOSE r \in 1..100 : r ^ n > t /\ (r - 1) ^ n <= t

\* Newton's iteration for the square root, from above: x, then
\* y = (x + a \div x) \div 2, until y >= x
NatSqrtState(a, x) == [x |-> x, y |-> NatDivSmall[NatAdd[x, NatDiv[a, x]], 2]]

RECURSIVE NatSqrtFrom(_, _)
NatSqrtFrom(a, s) ==
    IF NatCmp[s.y, s.x] >= 0 THEN s.x ELSE NatSqrtFrom(a, NatSqrtState(a, s.y))

\* the integer square root of a, the iteration started above it from the
\* root of a's leading limb
NatSqrt[a \in Seq(Nat)] ==
    IF a = << >> THEN << >>
    ELSE NatSqrtFrom(a,
             NatSqrtState(a,
                 NatShift[NatFromInt[RootAbove(a[Len(a)], 2)
                                         * (IF Len(a) % 2 = 1 THEN 1 ELSE 100)],
                          (Len(a) - 1) \div 2]))

(***************************************************************************)
(* JS numbers: << kind, sign, magnitude >>.  A finite value is             *)
(* sign * magnitude / Base^4; One is 1.0.                                  *)
(***************************************************************************)
One == << "fin", 1, << 0, 0, 0, 0, 1 >> >>

\* the number of fractional limbs
Frac == Len(One[3]) - 1

Zero == << "fin", 0, << >> >>

NaN == << "nan", 0, << >> >>

PosInf == << "inf", 1, << >> >>

NegInf == << "inf", -1, << >> >>

\* the value read at an index past the end of an array
Undefined == << "undefined", 0, << >> >>

\* the values a variable of the program holds: a kind, a sign and a
\* magnitude
Number == STRING \X Int \X Seq(Nat)

Fin[s \in Int, m \in Seq(Nat)] ==
    IF m = << >> THEN Zero ELSE IF s = 0 THEN Zero ELSE << "fin", s, m >>

IsNaN(x) == x[1] = "nan"

IsFinite(x) == x[1] = "fin"

IsInf(x) == x[1] = "inf"

SignOf(i) == IF i > 0 THEN 1 ELSE IF i < 0 THEN -1 ELSE 0

AbsInt(i) == IF i < 0 THEN -i ELSE i

\* the integer i as a number
Num(i) == Fin[SignOf(i), NatShift[NatFromInt[AbsInt(i)], Frac]]

\* the decimal literal n / 10^e, for e in 0..9
Dec(n, e) ==
    Fin[SignOf(n),
        NatShift[NatMulSmall[NatFromInt[AbsInt(n)], 10 ^ ((4 * Frac - e) % 4)],
                 (4 * Frac - e) \div 4]]

Neg[x \in Number] == << x[1], -x[2], x[3] >>

Abs[x \in Number] == << x[1], AbsInt(x[2]), x[3] >>

\* x + s y for s = 1, -1
AddSigned(x, y, s) ==
    CASE x[1] = "nan" -> NaN
      [] y[1] = "nan" -> NaN
      [] x[1] = "inf" -> (IF y[1] = "inf" /\ x[2] # s * y[2] THEN NaN ELSE x)
      [] y[1] = "inf" -> << "inf", s * y[2], << >> >>
      [] x[2] = 0 -> Fin[s * y[2], y[3]]
      [] y[2] = 0 -> x
      [] x[2] = s * y[2] -> Fin[x[2], NatAdd[x[3], y[3]]]
      [] NatCmp[x[3], y[3]] >= 0 -> Fin[x[2], NatSub[x[3], y[3]]]
      [] OTHER -> Fin[s * y[2], NatSub[y[3], x[3]]]

\* x + y
Add[x \in Number, y \in Number] == AddSigned(x, y, 1)

\* x - y
Sub[x \in Number, y \in Number] == AddSigned(x, y, -1)

\* x * y
Mul[x \in Number, y \in Number] ==
    CASE x[1] = "nan" -> NaN
      [] y[1] = "nan" -> NaN
      [] x[1] = "inf" \/ y[1] = "inf" ->
             (IF x[2] * y[2] = 0 THEN NaN
              ELSE IF x[2] * y[2] > 0 THEN PosInf ELSE NegInf)
      [] OTHER -> Fin[x[2] * y[2], NatDrop[NatMul[x[3], y[3]], Frac]]

\* x / y (a zero divisor is +0)
Div[x \in Number, y \in Number] ==
    CASE x[1] = "nan" -> NaN
      [] y[1] = "nan" -> NaN
      [] x[1] = "inf" ->
             (IF y[1] = "inf" THEN NaN
              ELSE IF x[2] * y[2] >= 0 THEN x ELSE Neg[x])
      [] y[1] = "inf" -> Zero
      [] y[2] = 0 ->
             (IF x[2] = 0 THEN NaN ELSE IF x[2] > 0 THEN PosInf ELSE NegInf)
      [] OTHER -> Fin[x[2] * y[2], NatDiv[NatShift[x[3], Frac], y[3]]]

\* Math.sqrt
Sqrt[x \in Number] ==
    CASE x[1] = "nan" -> NaN
      [] x[2] < 0 -> NaN
      [] x[1] = "inf" -> PosInf
      [] OTHER -> Fin[1, NatSqrt[NatShift[x[3], Frac]]]

\* -1, 0, 1 as x < y, x = y, x > y, for x and y not NaN
Cmp[x \in Number, y \in Number] ==
    IF IsInf(x) \/ IsInf(y)
    THEN LET rx == IF IsInf(x) THEN x[2] ELSE 0
             ry == IF IsInf(y) THEN y[2] ELSE 0
         IN  SignOf(rx - ry)
    ELSE IF x[2] # y[2] THEN SignOf(x[2] - y[2])
    ELSE x[2] * NatCmp[x[3], y[3]]

\* the comparisons of JS: false when an operand is NaN
Lt[x \in Number, y \in Number] == x[1] # "nan" /\ y[1] # "nan" /\ Cmp[x, y] < 0

Le[x \in Number, y \in Number] ==
    x[1] # "nan" /\ y[1] # "nan" /\ Cmp[x, y] <= 0

Gt[x \in Number, y \in Number] == x[1] # "nan" /\ y[1] # "nan" /\ Cmp[x, y] > 0

Ge[x \in Number, y \in Number] ==
    x[1] # "nan" /\ y[1] # "nan" /\ Cmp[x, y] >= 0

\* x === y
StrictEq(x, y) == ~IsNaN(x) /\ ~IsNaN(y) /\ x = y

\* v || 0: a missing, NaN or zero value reads as 0
OrZero(v) == IF v = Undefined \/ IsNaN(v) \/ v = Zero THEN Zero ELSE v

\* array[index], 1-based here; Undefined past the end
At(array, index) == IF index <= Len(array) THEN array[index] ELSE Undefined

(***************************************************************************)
(* The Kubelka-Munk transform pair.                                        *)
(***************************************************************************)
Sentinel == Num(1000000)

\* the forward transform without its guard for R <= 0
reflectanceToKSMutant(reflectance) ==
    IF Ge[reflectance, One] THEN Zero
    ELSE Div[Mul[Sub[One, reflectance], Sub[One, reflectance]],
             Mul[Num(2), reflectance]]

reflectanceToKS(reflectance) ==
    IF Le[reflectance, Zero] THEN Sentinel
    ELSE IF Ge[reflectance, One] THEN Zero
    ELSE Div[Mul[Sub[One, reflectance], Sub[One, reflectance]],
             Mul[Num(2), reflectance]]

\* the inverse transform with ks + 1 under the root
ksToReflectanceMutant(ks) ==
    IF Le[ks, Zero] THEN One
    ELSE IF Ge[ks, Sentinel] THEN Zero
    ELSE Sub[Add[One, ks], Sqrt[Mul[ks, Add[ks, One]]]]

ksToReflectance(ks) ==
    IF Le[ks, Zero] THEN One
    ELSE IF Ge[ks, Sentinel] THEN Zero
    ELSE Sub[Add[One, ks], Sqrt[Mul[ks, Add[ks, Num(2)]]]]

(***************************************************************************)
(* Spectral mixing.  A component is [reflectance, concentration].          *)
(***************************************************************************)
RECURSIVE SumConcentration(_, _)
\* components.reduce((sum, comp) => sum + comp.concentration, 0)
SumConcentration(components, s) ==
    IF s.j > Len(components) THEN s.sum
    ELSE SumConcentration(components,
             [j   |-> s.j + 1,
              sum |-> Add[s.sum, components[s.j].concentration]])

normalizeBy(components, totalConcentration) ==
    [j \in 1..Len(components) |->
        [reflectance   |-> components[j].reflectance,
         concentration |-> Div[components[j].concentration,
                               totalConcentration]]]

\* the components with their concentrations left as given
normalizedComponentsMutant(components) == normalizeBy(components, One)

normalizedComponents(components) ==
    normalizeBy(components,
                SumConcentration(components, [j |-> 1, sum |-> Zero]))

RECURSIVE SumKS(_, _, _)
\* the weighted K/S sum of one wavelength
SumKS(normalized, index, s) ==
    IF s.j > Len(normalized) THEN s.sum
    ELSE SumKS(normalized, index,
             [j   |-> s.j + 1,
              sum |-> Add[s.sum,
                          Mul[reflectanceToKS(OrZero(At(normalized[s.j].reflectance,
                                                        index))),
                              normalized[s.j].concentration]]])

mixNormalized(grid, normalized) ==
    [index \in 1..Len(grid) |->
        ksToReflectance(SumKS(normalized, index, [j |-> 1, sum |-> Zero]))]

mixReflectance(grid, components) ==
    IF Len(components) = 0 THEN [index \in 1..Len(grid) |-> One]
    ELSE mixNormalized(grid, normalizedComponents(components))

(***************************************************************************)
(* The Math library, to the precision of the number grid.                  *)
(***************************************************************************)
\* Math.PI, to the nearest grid value
PI == << "fin", 1, << 7932, 3589, 9265, 1415, 3 >> >>

\* x / n for an integer 0 < n < Base
DivInt[x \in Number, n \in Int] ==
    IF IsFinite(x) THEN Fin[x[2], NatDivSmall[x[3], n]] ELSE x

HalfPi == DivInt[PI, 2]

TwoPi == Fin[1, NatMulSmall[PI[3], 2]]

\* x rounded down, whole being |x| truncated to an integer
FloorTo[x \in Number, whole \in Seq(Nat)] ==
    IF x[2] >= 0 \/ whole = x[3] THEN Fin[x[2], whole]
    ELSE Fin[-1, NatAdd[whole, One[3]]]

\* Math.floor
Floor[x \in Number] ==
    IF ~IsFinite(x) THEN x ELSE FloorTo[x, NatShift[NatDrop[x[3], Frac], Frac]]

\* Math.round: the nearest integer, a half rounded up
Round[x \in Number] == Floor[Add[x, Dec(5, 1)]]

\* Math.min and Math.max of two numbers: NaN when either is NaN
MathMin[x \in Number, y \in Number] ==
    IF IsNaN(x) \/ IsNaN(y) THEN NaN ELSE IF Cmp[x, y] <= 0 THEN x ELSE y

MathMax[x \in Number, y \in Number] ==
    IF IsNaN(x) \/ IsNaN(y) THEN NaN ELSE IF Cmp[x, y] >= 0 THEN x ELSE y

\* Newton's iteration for the cube root, from above: x, then
\* y = (2 x + a \div x^2) \div 3, until y >= x
NatCbrtState(a, x) ==
    [x |-> x,
     y |-> NatDivSmall[NatAdd[NatMulSmall[x, 2], NatDiv[a, NatMul[x, x]]], 3]]

RECURSIVE NatCbrtFrom(_, _)
NatCbrtFrom(a, s) ==
    IF NatCmp[s.y, s.x] >= 0 THEN s.x ELSE NatCbrtFrom(a, NatCbrtState(a, s.y))

\* the factor above the cube root of Base^k, for k = 0, 1, 2
CbrtOfBase(k) == IF k = 0 THEN 1 ELSE IF k = 1 THEN 22 ELSE 465

\* the integer cube root of a, the iteration started above it from the
\* root of a's leading limb
NatCbrt[a \in Seq(Nat)] ==
    IF a = << >> THEN << >>
    ELSE NatCbrtFrom(a,
             NatCbrtState(a,
                 NatShift[NatFromInt[RootAbove(a[Len(a)], 3)
                                         * CbrtOfBase((Len(a) - 1) % 3)],
                          (Len(a) - 1) \div 3]))

\* the cube root of x >= 0
Cbrt[x \in Number] ==
    IF IsNaN(x) \/ x[2] < 0 THEN NaN
    ELSE IF IsInf(x) THEN PosInf
    ELSE Fin[1, NatCbrt[NatShift[x[3], 2 * Frac]]]

\* x^7 from x and x^2
Pow7From[x \in Number, x2 \in Number] == Mul[Mul[Mul[x2, x2], x2], x]

\* Math.pow(x, 7)
Pow7[x \in Number] == Pow7From[x, Mul[x, x]]

Pow5From[r \in Number, r2 \in Number] == Mul[Mul[r2, r2], r]

Pow5[r \in Number] == Pow5From[r, Mul[r, r]]

\* Math.pow(x, 1/2.4) for x >= 0: the twelfth root, to the fifth power
PowGamma[x \in Number] == Pow5[Sqrt[Sqrt[Cbrt[x]]]]

RECURSIVE SeriesFrom(_, _)
\* term * (1 + q/(k(k+1)) * (1 + q/((k+2)(k+3)) * ...)) added to sum, to n
\* terms: the Taylor series of sin (k = 2) and cos (k = 1), with q = -x^2
SeriesFrom(q, s) ==
    IF s.n = 0 \/ s.term = Zero THEN s.sum
    ELSE SeriesFrom(q,
             [term |-> DivInt[Mul[s.term, q], s.k * (s.k + 1)],
              k    |-> s.k + 2,
              n    |-> s.n - 1,
              sum  |-> Add[s.sum, s.term]])

\* sin and cos of 0 <= r <= PI/2
SinSeries[r \in Number] ==
    SeriesFrom(Neg[Mul[r, r]], [term |-> r, k |-> 2, n |-> 16, sum |-> Zero])

CosSeries[r \in Number] ==
    SeriesFrom(Neg[Mul[r, r]], [term |-> One, k |-> 1, n |-> 16, sum |-> Zero])

\* a - floor(a / 2 PI) * 2 PI, for a >= 0
ReduceAbs[a \in Number] == Sub[a, Mul[Floor[Div[a, TwoPi]], TwoPi]]

\* |x| reduced into [0, 2 PI)
Reduce[x \in Number] == ReduceAbs[Abs[x]]

\* r in [0, 2 PI) folded into [0, PI]; s in [0, PI] folded into [0, PI/2]
FoldPi[r \in Number] == IF Le[r, PI] THEN r ELSE Sub[r, PI]

FoldHalf[s \in Number] == IF Le[s, HalfPi] THEN s ELSE Sub[PI, s]

Signed[negate \in BOOLEAN, v \in Number] == IF negate THEN Neg[v] ELSE v

\* sin(r) = -sin(r - PI) and sin(s) = sin(PI - s)
SinReduced[negate \in BOOLEAN, r \in Number] ==
    Signed[negate # Gt[r, PI], SinSeries[FoldHalf[FoldPi[r]]]]

\* Math.sin: odd in x
Sin[x \in Number] ==
    IF ~IsFinite(x) THEN NaN ELSE SinReduced[x[2] < 0, Reduce[x]]

\* cos(r) = -cos(r - PI) and cos(s) = -cos(PI - s)
CosFolded[negate \in BOOLEAN, s \in Number] ==
    Signed[negate # Gt[s, HalfPi], CosSeries[FoldHalf[s]]]

CosReduced[r \in Number] == CosFolded[Gt[r, PI], FoldPi[r]]

\* Math.cos: even in x
Cos[x \in Number] == IF ~IsFinite(x) THEN NaN ELSE CosReduced[Reduce[x]]

RECURSIVE ExpSeries(_, _)
ExpSeries(y, s) ==
    IF s.n = 0 \/ s.term = Zero THEN s.sum
    ELSE ExpSeries(y,
             [term |-> DivInt[Mul[s.term, y], s.k],
              k    |-> s.k + 1,
              n    |-> s.n - 1,
              sum  |-> Add[s.sum, s.term]])

RECURSIVE SquareTimes(_)
SquareTimes(s) ==
    IF s.n = 0 THEN s.x ELSE SquareTimes([x |-> Mul[s.x, s.x], n |-> s.n - 1])

\* Math.exp for x <= 0: exp(x / 64) by its Taylor series, squared six times;
\* below -40 the value is under the grid's resolution
Exp[x \in Number] ==
    IF IsNaN(x) THEN NaN
    ELSE IF x = NegInf \/ Lt[x, Num(-40)] THEN Zero
    ELSE SquareTimes(
             [x |-> ExpSeries(DivInt[x, 64],
                        [term |-> One, k |-> 1, n |-> 22, sum |-> Zero]),
              n |-> 6])

RECURSIVE AtanSeries(_, _)
\* z - z^3/3 + z^5/5 - ..., the power of z carried in pw
AtanSeries(q, s) ==
    IF s.n = 0 \/ s.pw = Zero THEN s.sum
    ELSE AtanSeries(q,
             [pw  |-> Mul[s.pw, q],
              k   |-> s.k + 2,
              n   |-> s.n - 1,
              sum |-> Add[s.sum, DivInt[s.pw, s.k]]])

\* the half-angle step: tan(a / 2) from t = tan(a)
HalfTan[t \in Number] == Div[t, Add[One, Sqrt[Add[One, Mul[t, t]]]]]

\* 4 atan(z)
AtanSmall[z \in Number] ==
    Mul[Num(4),
        AtanSeries(Neg[Mul[z, z]], [pw |-> z, k |-> 1, n |-> 14, sum |-> Zero])]

\* atan(t) for 0 <= t <= 1
Atan01[t \in Number] == AtanSmall[HalfTan[HalfTan[t]]]

\* atan(ay / ax) from the atan of the smaller over the larger
AtanOctant[low \in BOOLEAN, at \in Number] ==
    IF low THEN at ELSE Sub[HalfPi, at]

AtanRatio[ay \in Number, ax \in Number] ==
    AtanOctant[Le[ay, ax], Atan01[Div[MathMin[ay, ax], MathMax[ay, ax]]]]

\* the angle placed in the quadrant of (sx, sy)
AtanQuadrant[sy \in Int, sx \in Int, a \in Number] ==
    Signed[sy < 0, IF sx > 0 THEN a ELSE Sub[PI, a]]

\* Math.atan2 for finite y and x: exact on the axes
Atan2[y \in Number, x \in Number] ==
    IF ~IsFinite(y) \/ ~IsFinite(x) THEN NaN
    ELSE IF y[2] = 0 THEN (IF x[2] >= 0 THEN Zero ELSE PI)
    ELSE IF x[2] = 0 THEN (IF y[2] > 0 THEN HalfPi ELSE Neg[HalfPi])
    ELSE AtanQuadrant[y[2], x[2], AtanRatio[Abs[y], Abs[x]]]

(***************************************************************************)
(* The engine's configuration: the wavelength grid given to the            *)
(* constructor, the CIE 1931 2-degree observer and illuminant D65.  The    *)
(* tables are held in units of 0.0001, as they are written in the source.  *)
(***************************************************************************)
DefaultWavelengths == [i \in 1..31 |-> 400 + (i - 1) * 10]

observerX ==
    << 143, 435, 1344, 2839, 3483, 3362, 2908, 1954, 956, 320, 49, 93,
       633, 1655, 2904, 4334, 5945, 7621, 9163, 10263, 10622, 10026,
       8544, 6424, 4479, 2835, 1649, 874, 468, 227, 114 >>

observerY ==
    << 4, 12, 40, 116, 230, 380, 600, 910, 1390, 2080, 3230, 5030, 7100,
       8620, 9540, 9950, 9950, 9520, 8700, 7570, 6310, 5030, 3810, 2650,
       1750, 1070, 610, 320, 170, 82, 41 >>

observerZ ==
    << 679, 2074, 6456, 13856, 17471, 17721, 16692, 12876, 8130, 4652,
       2720, 1582, 782, 422, 203, 87, 39, 21, 17, 11, 8, 3, 2, 0, 0, 0,
       0, 0, 0, 0, 0 >>

illuminantD65Table ==
    << 9642, 10000, 9548, 10579, 10196, 10004, 10034, 9818, 9355, 9082,
       8747, 8347, 8173, 7739, 7386, 7172, 7002, 6838, 6706, 6597, 6501,
       6293, 6163, 5982, 5833, 5718, 5612, 5511, 5410, 5333, 5270 >>


\* table[i] as a number; undefined past the end of the table
TableAt(table, i) == IF i <= Len(table) THEN Dec(table[i], 4) ELSE Undefined

\* a value used in arithmetic: undefined converts to NaN
ToNumber(v) == IF v = Undefined THEN NaN ELSE v

\* the wavelength step the code computes and then does not use
wavelengthStep(grid) ==
    Div[Num(grid[Len(grid)] - grid[1]), Num(Len(grid) - 1)]

\* one pass of the loop of reflectanceToXYZ over its variables s
accumulate(s, illuminantFactor, weighted) ==
    [i |-> s.i + 1,
     X |-> Add[s.X, Mul[weighted, ToNumber(TableAt(observerX, s.i))]],
     Y |-> Add[s.Y, Mul[weighted, ToNumber(TableAt(observerY, s.i))]],
     Z |-> Add[s.Z, Mul[weighted, ToNumber(TableAt(observerZ, s.i))]],
     sumWeights |-> Add[s.sumWeights,
                        Mul[illuminantFactor,
                            ToNumber(TableAt(observerY, s.i))]]]

weigh(s, illuminantFactor, reflectance) ==
    accumulate(s, illuminantFactor,
               Mul[illuminantFactor, ToNumber(At(reflectance, s.i))])

RECURSIVE IntegrateFrom(_, _, _)
\* the loop of reflectanceToXYZ
IntegrateFrom(grid, reflectance, s) ==
    IF s.i > Len(grid) THEN s
    ELSE IntegrateFrom(grid, reflectance,
             weigh(s, ToNumber(TableAt(illuminantD65Table, s.i)), reflectance))

\* the sums scaled by k
scaleXYZ(s, k) == [X |-> Mul[s.X, k], Y |-> Mul[s.Y, k], Z |-> Mul[s.Z, k]]

\* the normalisation of the accumulated sums: k = 100 / sumWeights
normalizeXYZMutant(grid, s) ==
    scaleXYZ(s, Div[Num(100), Mul[s.sumWeights, wavelengthStep(grid)]])

normalizeXYZ(grid, s) == scaleXYZ(s, Div[Num(100), s.sumWeights])

reflectanceToXYZ(grid, reflectance) ==
    normalizeXYZ(grid,
        IntegrateFrom(grid, reflectance,
            [i |-> 1, X |-> Zero, Y |-> Zero, Z |-> Zero, sumWeights |-> Zero]))

(***************************************************************************)
(* XYZ to sRGB.                                                            *)
(***************************************************************************)
gammaCorrect(linear) ==
    IF Le[linear, Dec(31308, 7)] THEN Mul[Dec(1292, 2), linear]
    ELSE Sub[Mul[Dec(1055, 3), PowGamma[linear]], Dec(55, 3)]

\* a channel as an 8-bit value: scaled, rounded, clamped
toByteMutant(linear) == Round[Mul[gammaCorrect(linear), Num(255)]]

toByte(linear) ==
    MathMax[Zero, MathMin[Num(255), Round[Mul[gammaCorrect(linear), Num(255)]]]]

\* linear RGB from XYZ / 100, then gamma and the 8-bit conversion
linearToRGB(X, Y, Z) ==
    [r |-> toByte(Add[Add[Mul[X, Dec(32406, 4)], Mul[Y, Dec(-15372, 4)]],
                      Mul[Z, Dec(-4986, 4)]]),
     g |-> toByte(Add[Add[Mul[X, Dec(-9689, 4)], Mul[Y, Dec(18758, 4)]],
                      Mul[Z, Dec(415, 4)]]),
     b |-> toByte(Add[Add[Mul[X, Dec(557, 4)], Mul[Y, Dec(-2040, 4)]],
                      Mul[Z, Dec(10570, 4)]])]

xyzToRGB(xyz) ==
    linearToRGB(Div[xyz.X, Num(100)], Div[xyz.Y, Num(100)],
                Div[xyz.Z, Num(100)])

(***************************************************************************)
(* CIEDE2000.  colorDifferenceTerms returns every local of                 *)
(* colorDifference; colorDifference returns deltaE.                        *)
(***************************************************************************)
\* radians to degrees, degrees to radians, as the code writes them
ToDegrees[rad \in Number] == Div[Mul[rad, Num(180)], PI]

ToRadians[deg \in Number] == Div[Mul[deg, PI], Num(180)]

\* if (hp < 0) hp += 360
wrapHue(hp) == IF Lt[hp, Zero] THEN Add[hp, Num(360)] ELSE hp

\* h': Math.atan2(b, a') in degrees, 360 added when negative
hueAngle(b, ap) == wrapHue(ToDegrees[Atan2[b, ap]])

\* dhp = h'2 - h'1, less 360 above 180, plus 360 below -180
wrapHueDifferenceMutant(dhp) ==
    IF Gt[dhp, Num(180)] THEN Sub[dhp, Num(360)] ELSE dhp

wrapHueDifference(dhp) ==
    IF Gt[dhp, Num(180)] THEN Sub[dhp, Num(360)]
    ELSE IF Lt[dhp, Num(-180)] THEN Add[dhp, Num(360)]
    ELSE dhp

hueDifference(hp1, hp2) == wrapHueDifference(Sub[hp2, hp1])

\* the mean hue hp = (h'1 + h'2) / 2, moved by 180 when the hues are more
\* than 180 apart
adjustMeanHueMutant(hp1, hp2, hp) ==
    IF Gt[Sub[hp1, hp2], Num(180)]
    THEN (IF Lt[Add[hp1, hp2], Num(360)] THEN Add[hp, Num(180)]
          ELSE Sub[hp, Num(180)])
    ELSE hp

adjustMeanHue(hp1, hp2, hp) ==
    IF Gt[Abs[Sub[hp1, hp2]], Num(180)]
    THEN (IF Lt[Add[hp1, hp2], Num(360)] THEN Add[hp, Num(180)]
          ELSE Sub[hp, Num(180)])
    ELSE hp

meanHue(hp1, hp2, Cp1Cp2) ==
    IF StrictEq(Cp1Cp2, Zero) THEN Add[hp1, hp2]
    ELSE adjustMeanHue(hp1, hp2, Div[Add[hp1, hp2], Num(2)])

\* T, the hue rotation term
hueT(hp) ==
    Sub[Add[Add[Sub[One,
                    Mul[Dec(17, 2), Cos[ToRadians[Sub[hp, Num(30)]]]]],
                Mul[Dec(24, 2), Cos[ToRadians[Mul[Num(2), hp]]]]],
            Mul[Dec(32, 2), Cos[ToRadians[Add[Mul[Num(3), hp], Num(6)]]]]],
        Mul[Dec(20, 2), Cos[ToRadians[Sub[Mul[Num(4), hp], Num(63)]]]]]

\* RT, the hue rotation factor, from dhp_275 = hp - 275 and dCp7 = Cp^7
rotationFrom(dhp_275, dCp7) ==
    Mul[Mul[Num(-2), Sqrt[Div[dCp7, Add[dCp7, Pow7[Num(25)]]]]],
        Sin[Mul[Mul[Num(60),
                    Exp[Div[Mul[Mul[Num(-1), dhp_275], dhp_275],
                            Num(25 * 25)]]],
                Div[PI, Num(180)]]]]

rotationRT(hp, Cp) == rotationFrom(Sub[hp, Num(275)], Pow7[Cp])

\* Math.pow(x, 2)
Pow2[x \in Number] == Mul[x, x]

\* SL, SC, SH: the weighting functions
weightSL(Lp) ==
    Add[One, Div[Mul[Dec(15, 3), Pow2[Sub[Lp, Num(50)]]],
                 Sqrt[Add[Num(20), Pow2[Sub[Lp, Num(50)]]]]]]

weightSCMutant(Cp) == Mul[Dec(45, 3), Cp]

weightSC(Cp) == Add[One, Mul[Dec(45, 3), Cp]]

weightSH(Cp, T) == Add[One, Mul[Mul[Dec(15, 3), Cp], T]]

\* The locals of colorDifference, gathered in a record t in the order of
\* their dependencies.
\* Step 1: C1, C2, the mean C, G, a'1, a'2
withChroma(t) ==
    t @@ [C1 |-> Sqrt[Add[Mul[t.a1, t.a1], Mul[t.b1, t.b1]]],
          C2 |-> Sqrt[Add[Mul[t.a2, t.a2], Mul[t.b2, t.b2]]]]

withPow7(t) == t @@ [pow7 |-> Pow7[Div[Add[t.C1, t.C2], Num(2)]]]

withG(t) ==
    t @@ [G |-> Mul[Dec(5, 1),
                    Sub[One, Sqrt[Div[t.pow7, Add[t.pow7, Pow7[Num(25)]]]]]]]

withAp(t) ==
    t @@ [ap1 |-> Mul[Add[One, t.G], t.a1], ap2 |-> Mul[Add[One, t.G], t.a2]]

\* Step 2: C'1, C'2, h'1, h'2
withCpHp(t) ==
    t @@ [Cp1 |-> Sqrt[Add[Mul[t.ap1, t.ap1], Mul[t.b1, t.b1]]],
          Cp2 |-> Sqrt[Add[Mul[t.ap2, t.ap2], Mul[t.b2, t.b2]]],
          hp1 |-> hueAngle(t.b1, t.ap1),
          hp2 |-> hueAngle(t.b2, t.ap2)]

\* Step 3: the differences, and the means of L' and C'
withDeltas(t) ==
    t @@ [deltaL  |-> Sub[t.L2, t.L1],
          deltaCp |-> Sub[t.Cp2, t.Cp1],
          Cp1Cp2  |-> Mul[t.Cp1, t.Cp2],
          Lp      |-> Div[Add[t.L1, t.L2], Num(2)],
          Cp      |-> Div[Add[t.Cp1, t.Cp2], Num(2)]]

withHues(t) ==
    t @@ [dhp |-> IF StrictEq(t.Cp1Cp2, Zero) THEN Zero
                  ELSE hueDifference(t.hp1, t.hp2),
          hp  |-> meanHue(t.hp1, t.hp2, t.Cp1Cp2)]

\* Step 4: deltaH', T, RT and the weighting functions
withWeights(t) ==
    t @@ [deltaHp |-> IF StrictEq(t.Cp1Cp2, Zero) THEN Zero
                      ELSE Mul[Mul[Num(2), Sqrt[t.Cp1Cp2]],
                               Sin[Div[Mul[t.dhp, PI], Num(360)]]],
          T  |-> hueT(t.hp),
          RT |-> rotationRT(t.hp, t.Cp),
          SL |-> weightSL(t.Lp),
          SC |-> weightSC(t.Cp)]

withSH(t) == t @@ [SH |-> weightSH(t.Cp, t.T)]

\* the final terms
withTerms(t) ==
    t @@ [deltaL_term |-> Div[t.deltaL, Mul[t.kL, t.SL]],
          deltaC_term |-> Div[t.deltaCp, Mul[t.kC, t.SC]],
          deltaH_term |-> Div[t.deltaHp, Mul[t.kH, t.SH]]]

withRotation(t) ==
    t @@ [rotation_term |-> Mul[Mul[t.RT, t.deltaC_term], t.deltaH_term]]

withDeltaE(t) ==
    t @@ [deltaE |-> Sqrt[Add[Add[Add[Mul[t.deltaL_term, t.deltaL_term],
                                      Mul[t.deltaC_term, t.deltaC_term]],
                                  Mul[t.deltaH_term, t.deltaH_term]],
                              t.rotation_term]]]

colorDifferenceTerms(lab1, lab2, weights) ==
    withDeltaE(withRotation(withTerms(withSH(withWeights(withHues(
    withDeltas(withCpHp(withAp(withG(withPow7(withChroma(
        [L1 |-> lab1.L, a1 |-> lab1.a, b1 |-> lab1.b,
         L2 |-> lab2.L, a2 |-> lab2.a, b2 |-> lab2.b,
         kL |-> weights.kL, kC |-> weights.kC, kH |-> weights.kH]
    ))))))))))))

colorDifference(lab1, lab2, weights) ==
    colorDifferenceTerms(lab1, lab2, weights).deltaE

(***************************************************************************)
(* The state: the engine's configuration and one client's calls.           *)
(*   wavelengths  the grid given to the constructor                        *)
(*   pc           the operation the client calls next, or "done"           *)
(*   returned     the operations that have returned, in order              *)
(*   threw        whether the last call ended by throwing                  *)
(*   reflectance, ks, back   the argument of reflectanceToKS, the K/S      *)
(*                value, the result of ksToReflectance                     *)
(*   components, mixed       the argument and result of mixReflectance     *)
(*   curve, xyz, rgb         the argument of reflectanceToXYZ, the         *)
(*                tristimulus value, the result of xyzToRGB                *)
(*   lab1, lab2, weights     the arguments of colorDifference              *)
(*   first, swapped          the locals of colorDifference(lab1, lab2) and *)
(*                of colorDifference(lab2, lab1)                           *)
(***************************************************************************)
VARIABLES wavelengths, pc, returned, threw, reflectance, ks, back,
          components, mixed, curve, xyz, rgb, lab1, lab2, weights,
          first, swapped

vars == << wavelengths, pc, returned, threw, reflectance, ks, back,
           components, mixed, curve, xyz, rgb, lab1, lab2, weights,
           first, swapped >>

\* a number not yet given or computed
Unset == << "unset", 0, << >> >>

UnsetXYZ == [X |-> Unset, Y |-> Unset, Z |-> Unset]

UnsetRGB == [r |-> Unset, g |-> Unset, b |-> Unset]

UnsetLab == [L |-> Unset, a |-> Unset, b |-> Unset]

UnsetTerms == [deltaE |-> Unset]

(***************************************************************************)
(* The inputs.                                                             *)
(***************************************************************************)
\* the length of the grid given to the constructor in the mixing runs
GridLen == 2

\* the reflectances k / RSteps, from below 0 to above 1
RSteps == 40

CustomWavelengths == [i \in 1..GridLen |-> 400 + (i - 1) * 10]

\* reflectances around the one whose K/S is the sentinel (about 5e-7), the
\* grid of RSteps steps, and reflectances near 1
ReflectanceInputs ==
    {Dec(k, 7) : k \in 1..12} \cup {Dec(1, 9), Dec(5, 8)}
        \cup {Div[Num(k), Num(RSteps)] : k \in -2..(RSteps + 2)}
        \cup {Dec(999, 3), Dec(9999, 4)}

KSInputs ==
    {Num(-1), Zero, Dec(5, 1), Num(999999), Sentinel, Num(2000000)}

\* the reflectance values of the mixing curves: negative, one whose K/S is
\* above the sentinel, 0, two more in (0, 1), 1 and one above 1
RList ==
    << Dec(-5, 1), Dec(1, 7), Zero, Dec(1, 1), Dec(5, 1), One, Dec(15, 1) >>

\* the curve of n values that runs through RList from the given start
Curve(start, n) ==
    [i \in 1..n |-> RList[((start + i - 2) % Len(RList)) + 1]]

CurveLengths == {GridLen - 1, GridLen, GridLen + 1}

Component(c, conc) == [reflectance |-> c, concentration |-> conc]

\* concentrations of two components: a zero total, one unused component,
\* even and uneven ratios (1 : 6 gives weights that do not add up to 1
\* exactly, here and in binary floating point), and a negative pair
ConcPairs ==
    { << Zero, Zero >>, << One, Zero >>, << One, One >>, << One, Num(6) >>,
      << Num(3), One >>, << One, Num(-1) >> }

ConcTriples == { << One, Num(2), Num(4) >>, << One, Zero, Num(3) >> }

\* no component; one component; two components, the first of grid length;
\* three components with one curve
MixInputs ==
    { << >> }
        \cup { << Component(Curve(s, n), conc) >> :
                 s \in 1..Len(RList), n \in CurveLengths,
                 conc \in {Zero, One, Num(3)} }
        \cup { << Component(Curve(s, GridLen), c[1]),
                  Component(Curve(t, n), c[2]) >> :
                 s \in 1..Len(RList), t \in 1..Len(RList),
                 n \in CurveLengths, c \in ConcPairs }
        \cup { << Component(Curve(s, GridLen), c[1]),
                  Component(Curve(s, GridLen), c[2]),
                  Component(Curve(s, GridLen), c[3]) >> :
                 s \in 1..Len(RList), c \in ConcTriples }

\* curves on the default grid: lo up to index cut, hi after it
StepCurve(lo, hi, cut) ==
    [i \in 1..Len(DefaultWavelengths) |-> IF i <= cut THEN lo ELSE hi]

CurveInputs ==
    { StepCurve(lo, hi, cut) :
        lo \in {Zero, Dec(5, 1), One}, hi \in {Zero, Dec(5, 1), One},
        cut \in {0, 10, 20} }

\* tristimulus values below 0, in gamut and far out of gamut
XYZInputs ==
    { [X |-> x, Y |-> y, Z |-> z] :
        x, y, z \in {Num(-5), Zero, Dec(2, 1), Num(20), Num(60), Num(100),
                     Num(250)} }

\* (a, b): achromatic, the four axes, and the four quadrants
ABInputs ==
    { << 0, 0 >>, << 10, 0 >>, << -10, 0 >>, << 0, 10 >>, << 0, -10 >>,
      << 30, 40 >>, << -20, 5 >>, << -6, -8 >>, << 25, -25 >> }

LabInputs ==
    { [L |-> Num(l), a |-> Num(ab[1]), b |-> Num(ab[2])] :
        l \in {50, 80}, ab \in ABInputs }

defaultWeights == [kL |-> One, kC |-> One, kH |-> One]

(***************************************************************************)
(* Construction and the pending first call.                                *)
(***************************************************************************)
InitCommon ==
    /\ returned = << >>
    /\ threw = FALSE
    /\ back = Unset
    /\ mixed = << >>
    /\ rgb = UnsetRGB
    /\ first = UnsetTerms
    /\ swapped = UnsetTerms

InitKM ==
    /\ InitCommon
    /\ wavelengths = CustomWavelengths
    /\ curve = << >> /\ xyz = UnsetXYZ
    /\ lab1 = UnsetLab /\ lab2 = UnsetLab /\ weights = defaultWeights
    /\ \/ /\ pc = "reflectanceToKS"
          /\ reflectance \in ReflectanceInputs
          /\ ks = Unset
          /\ components = << >>
       \/ /\ pc = "ksToReflectance"
          /\ reflectance = Unset
          /\ ks \in KSInputs
          /\ components = << >>
       \/ /\ pc = "mixReflectance"
          /\ reflectance = Unset
          /\ ks = Unset
          /\ components \in MixInputs

InitXYZ ==
    /\ InitCommon
    /\ wavelengths = DefaultWavelengths
    /\ reflectance = Unset /\ ks = Unset /\ components = << >>
    /\ lab1 = UnsetLab /\ lab2 = UnsetLab /\ weights = defaultWeights
    /\ \/ /\ pc = "reflectanceToXYZ"
          /\ curve \in CurveInputs
          /\ xyz = UnsetXYZ
       \/ /\ pc = "xyzToRGB"
          /\ curve = << >>
          /\ xyz \in XYZInputs

InitDE ==
    /\ InitCommon
    /\ wavelengths = DefaultWavelengths
    /\ reflectance = Unset /\ ks = Unset /\ components = << >>
    /\ curve = << >> /\ xyz = UnsetXYZ
    /\ pc = "colorDifference"
    /\ lab1 \in LabInputs
    /\ lab2 \in LabInputs
    /\ weights = defaultWeights

(***************************************************************************)
(* The operations.  None of them has a throw statement, and none of the    *)
(* inputs above makes the runtime throw: every call returns.               *)
(***************************************************************************)
ReflectanceToKS ==
    /\ pc = "reflectanceToKS"
    /\ ks' = reflectanceToKS(reflectance)
    /\ pc' = "ksToReflectance"
    /\ returned' = Append(returned, "reflectanceToKS")
    /\ threw' = FALSE
    /\ UNCHANGED << wavelengths, reflectance, back, components, mixed, curve,
                    xyz, rgb, lab1, lab2, weights, first, swapped >>

KsToReflectance ==
    /\ pc = "ksToReflectance"
    /\ back' = ksToReflectance(ks)
    /\ pc' = "done"
    /\ returned' = Append(returned, "ksToReflectance")
    /\ threw' = FALSE
    /\ UNCHANGED << wavelengths, reflectance, ks, components, mixed, curve,
                    xyz, rgb, lab1, lab2, weights, first, swapped >>

MixReflectance ==
    /\ pc = "mixReflectance"
    /\ mixed' = mixReflectance(wavelengths, components)
    /\ pc' = "done"
    /\ returned' = Append(returned, "mixReflectance")
    /\ threw' = FALSE
    /\ UNCHANGED << wavelengths, reflectance, ks, back, components, curve,
                    xyz, rgb, lab1, lab2, weights, first, swapped >>

\* reflectanceToXYZ alone, or as the first step of reflectanceToRGB
ReflectanceToXYZ ==
    /\ pc = "reflectanceToXYZ"
    /\ xyz' = reflectanceToXYZ(wavelengths, curve)
    /\ pc' = "xyzToRGB"
    /\ returned' = Append(returned, "reflectanceToXYZ")
    /\ threw' = FALSE
    /\ UNCHANGED << wavelengths, reflectance, ks, back, components, mixed,
                    curve, rgb, lab1, lab2, weights, first, swapped >>

XyzToRGB ==
    /\ pc = "xyzToRGB"
    /\ rgb' = xyzToRGB(xyz)
    /\ pc' = "done"
    /\ returned' = Append(returned, "xyzToRGB")
    /\ threw' = FALSE
    /\ UNCHANGED << wavelengths, reflectance, ks, back, components, mixed,
                    curve, xyz, lab1, lab2, weights, first, swapped >>

ColorDifference ==
    /\ pc = "colorDifference"
    /\ first' = colorDifferenceTerms(lab1, lab2, weights)
    /\ pc' = "colorDifferenceSwapped"
    /\ returned' = Append(returned, "colorDifference")
    /\ threw' = FALSE
    /\ UNCHANGED << wavelengths, reflectance, ks, back, components, mixed,
                    curve, xyz, rgb, lab1, lab2, weights, swapped >>

\* the same call with its arguments exchanged
ColorDifferenceSwapped ==
    /\ pc = "colorDifferenceSwapped"
    /\ swapped' = colorDifferenceTerms(lab2, lab1, weights)
    /\ pc' = "done"
    /\ returned' = Append(returned, "colorDifference")
    /\ threw' = FALSE
    /\ UNCHANGED << wavelengths, reflectance, ks, back, components, mixed,
                    curve, xyz, rgb, lab1, lab2, weights, first >>

NextKM == ReflectanceToKS \/ KsToReflectance \/ MixReflectance

NextXYZ == ReflectanceToXYZ \/ XyzToRGB

NextDE == ColorDifference \/ ColorDifferenceSwapped

SpecKM == InitKM /\ [][NextKM]_vars

SpecXYZ == InitXYZ /\ [][NextXYZ]_vars

SpecDE == InitDE /\ [][NextDE]_vars

(***************************************************************************)
(* Properties.                                                             *)
(***************************************************************************)
\* |x - y| <= tol, for finite x and y
Within(x, y, tol) ==
    IsFinite(x) /\ IsFinite(y) /\ Le[Abs[Sub[x, y]], tol]

InUnitInterval(x) == IsFinite(x) /\ Ge[x, Zero] /\ Le[x, One]

MixDone == returned = << "mixReflectance" >>

RoundTripDone == returned = << "reflectanceToKS", "ksToReflectance" >>

TotalConcentration == SumConcentration(components, [j |-> 1, sum |-> Zero])

\* the documented domain of the concentrations: none negative, a positive total
ConcentrationsValid ==
    /\ \A j \in 1..Len(components) : Ge[components[j].concentration, Zero]
    /\ Gt[TotalConcentration, Zero]

\* every component carries the curve of the first, of grid length, with
\* values in [0, 1]
SelfMix ==
    /\ MixDone
    /\ Len(components) > 0
    /\ ConcentrationsValid
    /\ Len(components[1].reflectance) = Len(wavelengths)
    /\ \A j \in 1..Len(components) :
           components[j].reflectance = components[1].reflectance
    /\ \A i \in 1..Len(wavelengths) :
           InUnitInterval(components[1].reflectance[i])

\* C1, as the specification states it: mixReflectance with a non-empty
\* component list whose concentrations sum to zero signals an error.
C1_ZeroTotalSignalsError ==
    (MixDone /\ Len(components) > 0 /\ StrictEq(TotalConcentration, Zero))
        => threw

\* C2, as the specification states it: for every R strictly between 0 and 1
\* the round trip ksToReflectance(reflectanceToKS(R)) returns R within 1e-9.
C2_RoundTripOnOpenInterval ==
    (RoundTripDone /\ Gt[reflectance, Zero] /\ Lt[reflectance, One])
        => Within(back, reflectance, Dec(1, 9))

\* C2, amended: for R strictly between 0 and 1 the round trip returns R
\* within 1e-9 when K/S is below the sentinel 1000000, and 0 when K/S is at
\* or above it; R = 1 maps to K/S 0 and back to exactly 1; R = 0 maps to the
\* sentinel and back to exactly 0.
C2_RoundTripBelowSentinel ==
    RoundTripDone =>
        /\ (Gt[reflectance, Zero] /\ Lt[reflectance, One] /\ Lt[ks, Sentinel])
               => Within(back, reflectance, Dec(1, 9))
        /\ (Gt[reflectance, Zero] /\ Lt[reflectance, One] /\ Ge[ks, Sentinel])
               => back = Zero
        /\ reflectance = One => (ks = Zero /\ back = One)
        /\ reflectance = Zero => (ks = Sentinel /\ back = Zero)

\* a reflectance in (0, 1) whose K/S reaches the sentinel comes back as 0
C2_SentinelReached ==
    /\ RoundTripDone
    /\ Gt[reflectance, Zero] /\ Lt[reflectance, One]
    /\ Ge[ks, Sentinel]
    /\ back = Zero

\* C3, as the specification states it: self-mixing returns the same curve
\* at every index (to the round trip's tolerance of 1e-9).
C3_SelfMixReturnsCurve ==
    SelfMix =>
        \A i \in 1..Len(wavelengths) :
            Within(mixed[i], components[1].reflectance[i], Dec(1, 9))

\* C3, amended: self-mixing returns the curve within 1e-9 at every index
\* whose value is at least 1e-6, and within 1e-6 at an index whose value is
\* below 1e-6.
C3_SelfMixWithinTolerance ==
    SelfMix =>
        \A i \in 1..Len(wavelengths) :
            /\ Len(mixed) = Len(wavelengths)
            /\ Ge[components[1].reflectance[i], Dec(1, 6)]
                   => Within(mixed[i], components[1].reflectance[i], Dec(1, 9))
            /\ Lt[components[1].reflectance[i], Dec(1, 6)]
                   => Within(mixed[i], components[1].reflectance[i], Dec(1, 6))

\* two or more components with one curve: a value of 0 comes back above 0,
\* and a value at or above 1e-6 comes back
C3_SelfMixDrifts ==
    /\ SelfMix
    /\ Len(components) > 1
    /\ \E i \in 1..Len(wavelengths) :
           components[1].reflectance[i] = Zero /\ Gt[mixed[i], Zero]
    /\ \E i \in 1..Len(wavelengths) :
           Ge[components[1].reflectance[i], Dec(1, 6)]

\* C4, as the specification states it: mixReflectance signals an error when
\* a component's curve is longer than the wavelength grid.
C4_LongerCurveRejected ==
    (MixDone /\ \E j \in 1..Len(components) :
                   Len(components[j].reflectance) > Len(wavelengths))
        => threw

\* C5: for an empty component list, or concentrations none negative with a
\* positive total, the mixed curve has the length of the grid and every
\* entry is in [0, 1].
C5_MixedCurveInRange ==
    (MixDone /\ (Len(components) = 0 \/ ConcentrationsValid))
        => /\ Len(mixed) = Len(wavelengths)
           /\ \A i \in 1..Len(mixed) : InUnitInterval(mixed[i])

\* a curve shorter than the grid and a value outside [0, 1] have been mixed
C5_ShortAndOutOfRangeMixed ==
    /\ MixDone
    /\ Len(components) > 1
    /\ ConcentrationsValid
    /\ \E j \in 1..Len(components) :
           Len(components[j].reflectance) < Len(wavelengths)
    /\ \E j \in 1..Len(components) :
           \E i \in 1..Len(components[j].reflectance) :
               ~InUnitInterval(components[j].reflectance[i])

\* C6: colorDifference(lab, lab) is 0: the lightness, chroma, hue and
\* rotation terms are zero and no intermediate value is NaN or infinite.
C6_SelfDistanceZero ==
    (returned # << >> /\ lab1 = lab2)
        => /\ first.deltaE = Zero
           /\ first.deltaL_term = Zero
           /\ first.deltaC_term = Zero
           /\ first.deltaH_term = Zero
           /\ first.rotation_term = Zero
           /\ \A f \in DOMAIN first : IsFinite(first[f])

\* the achromatic case: a = b = 0 on both sides
C6_AchromaticCompared ==
    /\ returned # << >>
    /\ lab1 = lab2
    /\ lab1.a = Zero /\ lab1.b = Zero
    /\ first.Cp1Cp2 = Zero
    /\ first.deltaE = Zero

\* C7: colorDifference(lab1, lab2) = colorDifference(lab2, lab1); the swap
\* leaves the mean hue, T, RT, SL, SC and SH unchanged and negates the
\* lightness, chroma and hue differences.
C7_Symmetric ==
    pc = "done" =>
        /\ first.deltaE = swapped.deltaE
        /\ first.hp = swapped.hp
        /\ first.T = swapped.T
        /\ first.RT = swapped.RT
        /\ first.SL = swapped.SL
        /\ first.SC = swapped.SC
        /\ first.SH = swapped.SH
        /\ swapped.deltaL = Neg[first.deltaL]
        /\ swapped.deltaCp = Neg[first.deltaCp]
        /\ swapped.deltaHp = Neg[first.deltaHp]

\* two chromatic colours whose hue angles are more than 180 apart, the
\* smaller one first
C7_HuesFarApart ==
    /\ pc = "done"
    /\ first.Cp1Cp2 # Zero
    /\ Gt[Sub[first.hp2, first.hp1], Num(180)]
    /\ first.deltaE # Zero

C9_PerfectReflectorY100 ==
    (xyz # UnsetXYZ /\ curve = StepCurve(One, One, 0))
        => Within(xyz.Y, Num(100), Dec(1, 6))

\* the perfect reflector has been converted
C9_PerfectReflectorConverted ==
    /\ returned # << >>
    /\ returned[1] = "reflectanceToXYZ"
    /\ curve = StepCurve(One, One, 0)
    /\ Gt[xyz.X, Num(90)]

\* C10, as the specification states it: with both adjusted chromas non-zero
\* the hue difference is wrapped into (-180, 180], never exactly -180.
C10_HueDifferenceHalfOpen ==
    (returned # << >> /\ first.Cp1Cp2 # Zero)
        => Gt[first.dhp, Num(-180)] /\ Le[first.dhp, Num(180)]

\* C10, amended: with both adjusted chromas non-zero the hue difference is
\* h'2 - h'1 moved by a multiple of 360 into the closed interval
\* [-180, 180]; it is -180 when h'2 - h'1 is exactly -180.
C10_HueDifferenceClosed ==
    (returned # << >> /\ first.Cp1Cp2 # Zero)
        => /\ Ge[first.dhp, Num(-180)] /\ Le[first.dhp, Num(180)]
           /\ \E n \in {-360, 0, 360} :
                  first.dhp = Add[Sub[first.hp2, first.hp1], Num(n)]
           /\ Sub[first.hp2, first.hp1] = Num(-180) => first.dhp = Num(-180)

\* opposite hues, the larger angle first: h'2 - h'1 is exactly -180
C10_MinusHalfTurn ==
    /\ returned # << >>
    /\ first.Cp1Cp2 # Zero
    /\ first.dhp = Num(-180)

====
